---- MODULE Spec2Model ----
(***************************************************************************)
(* Model of the KTEX texture converter (source code/shank2_ktex_v4.py):    *)
(* the mipmap chain builder calculate_mipmap_chain, the structure detector *)
(* KTEXConverter._detect_structure, the colour and alpha primitives, the   *)
(* DXT block codec, and extract / rebuild / batch_extract.                 *)
(*                                                                         *)
(* A container file is represented by the part of it that detection can    *)
(* read: its length, whether bytes 0-3 are the magic tag, and bytes 6..11. *)
(***************************************************************************)
EXTENDS Integers, Sequences, FiniteSets, TLC

VARIABLES data, result, chain, prim, conv

vars == <<data, result, chain, prim, conv>>

(***************************************************************************)
(* Bounds of the model.                                                    *)
(***************************************************************************)
\* low bytes of the width and height fields are taken from 0..MaxLoByte
MaxLoByte == 8
\* high bytes of the width and height fields range over 0..MaxHiByte
MaxHiByte == 1
\* byte 7 (pixel-format id) ranges over 0..MaxFormatByte
MaxFormatByte == 3
\* cap on the iterations of the chain loop that the model follows
MaxLevels == 18

(***************************************************************************)
(* Program constants.                                                      *)
(***************************************************************************)
DXT1 == 0
DXT3 == 1
DXT5 == 2

NO_MIPMAPS == 1
COMPACT_MIPMAPS == 5
FULL_MIPMAPS == 8

\* len(data) < 12
MinFileLen == 12
\* 12 <= no_mip_header <= 64
NoMipHeaderMin == 12
NoMipHeaderMax == 64
\* 8 <= mip_header <= 256
MipHeaderMin == 8
MipHeaderMax == 256
\* the fallback header sizes
V1HeaderSize == 18
V5HeaderSize == 10
V8HeaderSize == 88

Max(a, b) == IF a >= b THEN a ELSE b
Min(a, b) == IF a <= b THEN a ELSE b

(***************************************************************************)
(* DXTFormat                                                               *)
(***************************************************************************)
\* mutant: the enum accepts one more id
IsDXTFormatLoose(b) == b \in DXT1..(DXT5 + 1)

\* DXTFormat(b) succeeds exactly for the three enum values
IsDXTFormat(b) == b \in {DXT1, DXT3, DXT5}

block_size(fmt) == IF fmt = DXT1 THEN 8 ELSE 16

(***************************************************************************)
(* calculate_mipmap_chain                                                  *)
(***************************************************************************)
MipmapInfo(level, width, height, size, offset) ==
    [level |-> level, width |-> width, height |-> height,
     size |-> size, offset |-> offset]

\* bw = max(1, (w + 3) // 4)
BlocksAcross(w) == Max(1, (w + 3) \div 4)

\* size = bw * bh * fmt.block_size
LevelSize(w, h, fmt) == BlocksAcross(w) * BlocksAcross(h) * block_size(fmt)

\* while w >= 1 and h >= 1
LoopCondition(w, h) == w >= 1 /\ h >= 1

\* mutant: the loop stops as soon as one dimension is small
BreakConditionEither(w, h) == w <= 4 \/ h <= 4

\* if w <= 4 and h <= 4: break
BreakCondition(w, h) == w <= 4 /\ h <= 4

\* mutant: the halving without its floor of 1
HalveDimNoClamp(w) == w \div 2

\* w = max(1, w // 2)
HalveDim(w) == Max(1, w \div 2)

\* mutant: break leaves the loop before total += size
RECURSIVE ChainLoopBreakBeforeAdd(_, _, _, _, _, _)
ChainLoopBreakBeforeAdd(w, h, level, total, mipmaps, fmt) ==
    IF ~LoopCondition(w, h)
    THEN [mipmaps |-> mipmaps, total |-> total]
    ELSE LET size == LevelSize(w, h, fmt)
             appended == Append(mipmaps, MipmapInfo(level, w, h, size, total))
         IN  IF BreakCondition(w, h)
             THEN [mipmaps |-> appended, total |-> total]
             ELSE ChainLoopBreakBeforeAdd(HalveDim(w), HalveDim(h), level + 1,
                                          total + size, appended, fmt)

RECURSIVE ChainLoop(_, _, _, _, _, _)
ChainLoop(w, h, level, total, mipmaps, fmt) ==
    IF ~LoopCondition(w, h)
    THEN [mipmaps |-> mipmaps, total |-> total]
    ELSE LET size == LevelSize(w, h, fmt)
             appended == Append(mipmaps, MipmapInfo(level, w, h, size, total))
         IN  IF BreakCondition(w, h)
             THEN [mipmaps |-> appended, total |-> total + size]
             ELSE ChainLoop(HalveDim(w), HalveDim(h), level + 1,
                            total + size, appended, fmt)

calculate_mipmap_chain(width, height, fmt) ==
    ChainLoop(width, height, 0, 0, <<>>, fmt)

(***************************************************************************)
(* KTEXConverter._detect_structure                                         *)
(***************************************************************************)
\* struct.unpack('<H', ...): little-endian unsigned 16-bit
UnpackH(lo, hi) == lo + 256 * hi

\* data[:n] of a byte string of the given length, n >= 0: its length
SliceLen(len, n) == Min(len, n)

KTEXInfo(version, fmt, width, height, header_size, has_mipmaps, mipmap_count, mipmaps, raw_header) ==
    [version |-> version, format |-> fmt, width |-> width, height |-> height,
     header_size |-> header_size, has_mipmaps |-> has_mipmaps,
     mipmap_count |-> mipmap_count, mipmaps |-> mipmaps,
     raw_header |-> raw_header]

\* blocks_w, blocks_h, single_size of _detect_structure
SingleSize(width, height, fmt) ==
    Max(1, (width + 3) \div 4) * Max(1, (height + 3) \div 4) * block_size(fmt)

\* the value held where no KTEXInfo was returned
NoInfo == KTEXInfo(-1, -1, -1, -1, -1, FALSE, -1, <<>>, -1)

Returned(info) == [raised |-> FALSE, error |-> "", info |-> info]
Raised(msg) == [raised |-> TRUE, error |-> msg, info |-> NoInfo]

\* if len(data) < 12 or data[0:4] != KTEX_MAGIC
InvalidFile(d) == d.len < MinFileLen \/ ~d.magic

\* 12 <= no_mip_header <= 64
NoMipWindow(no_mip_header) ==
    NoMipHeaderMin <= no_mip_header /\ no_mip_header <= NoMipHeaderMax

\* mutant: the upper edge of the window is left out
MipWindowExclusive(mip_header) ==
    MipHeaderMin <= mip_header /\ mip_header < MipHeaderMax

\* 8 <= mip_header <= 256
MipWindow(mip_header) ==
    MipHeaderMin <= mip_header /\ mip_header <= MipHeaderMax

NoMipInfo(d, version, fmt, width, height, single_size, header_size) ==
    KTEXInfo(version, fmt, width, height, header_size, FALSE, 1,
             <<MipmapInfo(0, width, height, single_size, 0)>>,
             SliceLen(d.len, header_size))

MipInfo(d, version, fmt, width, height, mipmaps, header_size) ==
    KTEXInfo(version, fmt, width, height, header_size, TRUE, Len(mipmaps),
             mipmaps, SliceLen(d.len, header_size))

\* mutant: the header sizes of versions 5 and 8 are exchanged
FallbackSwapped(d, version, fmt, width, height, single_size, mipmaps) ==
    IF version = NO_MIPMAPS
    THEN Returned(NoMipInfo(d, version, fmt, width, height, single_size,
                            V1HeaderSize))
    ELSE IF version = COMPACT_MIPMAPS
    THEN Returned(MipInfo(d, version, fmt, width, height, mipmaps,
                          V8HeaderSize))
    ELSE IF version = FULL_MIPMAPS
    THEN Returned(MipInfo(d, version, fmt, width, height, mipmaps,
                          V5HeaderSize))
    ELSE Raised("Unknown KTEX version")

\* the else branch: version-based detection
Fallback(d, version, fmt, width, height, single_size, mipmaps) ==
    IF version = NO_MIPMAPS
    THEN Returned(NoMipInfo(d, version, fmt, width, height, single_size,
                            V1HeaderSize))
    ELSE IF version = COMPACT_MIPMAPS
    THEN Returned(MipInfo(d, version, fmt, width, height, mipmaps,
                          V5HeaderSize))
    ELSE IF version = FULL_MIPMAPS
    THEN Returned(MipInfo(d, version, fmt, width, height, mipmaps,
                          V8HeaderSize))
    ELSE Raised("Unknown KTEX version")

\* mutant: the mipmapped window is tried before the no-mipmap window
ResolveMipFirst(d, version, fmt, width, height, single_size, chn) ==
    LET no_mip_header == d.len - single_size
        mip_header == d.len - chn.total
    IN  IF MipWindow(mip_header)
        THEN Returned(MipInfo(d, version, fmt, width, height, chn.mipmaps,
                              mip_header))
        ELSE IF NoMipWindow(no_mip_header)
        THEN Returned(NoMipInfo(d, version, fmt, width, height, single_size,
                                no_mip_header))
        ELSE Fallback(d, version, fmt, width, height, single_size,
                      chn.mipmaps)

\* mutant: a known version tag decides before the size arithmetic
ResolveVersionFirst(d, version, fmt, width, height, single_size, chn) ==
    LET no_mip_header == d.len - single_size
        mip_header == d.len - chn.total
    IN  IF version \in {NO_MIPMAPS, COMPACT_MIPMAPS, FULL_MIPMAPS}
        THEN Fallback(d, version, fmt, width, height, single_size,
                      chn.mipmaps)
        ELSE IF NoMipWindow(no_mip_header)
        THEN Returned(NoMipInfo(d, version, fmt, width, height, single_size,
                                no_mip_header))
        ELSE IF MipWindow(mip_header)
        THEN Returned(MipInfo(d, version, fmt, width, height, chn.mipmaps,
                              mip_header))
        ELSE Raised("Unknown KTEX version")

\* the if / elif / else on the two implied header sizes
Resolve(d, version, fmt, width, height, single_size, chn) ==
    LET no_mip_header == d.len - single_size
        mip_header == d.len - chn.total
    IN  IF NoMipWindow(no_mip_header)
        THEN Returned(NoMipInfo(d, version, fmt, width, height, single_size,
                                no_mip_header))
        ELSE IF MipWindow(mip_header)
        THEN Returned(MipInfo(d, version, fmt, width, height, chn.mipmaps,
                              mip_header))
        ELSE Fallback(d, version, fmt, width, height, single_size,
                      chn.mipmaps)

\* mutant: the format id is converted before the length and magic check
detect_structure_FormatFirst(d) ==
    IF ~IsDXTFormat(d.b7) THEN Raised("not a valid DXTFormat")
    ELSE IF InvalidFile(d) THEN Raised("Invalid KTEX file")
    ELSE LET version == d.b6
             fmt == d.b7
             width == UnpackH(d.b8, d.b9)
             height == UnpackH(d.b10, d.b11)
             single_size == SingleSize(width, height, fmt)
             chn == calculate_mipmap_chain(width, height, fmt)
         IN  Resolve(d, version, fmt, width, height, single_size, chn)

detect_structure(d) ==
    IF InvalidFile(d) THEN Raised("Invalid KTEX file")
    ELSE IF ~IsDXTFormat(d.b7) THEN Raised("not a valid DXTFormat")
    ELSE LET version == d.b6
             fmt == d.b7
             width == UnpackH(d.b8, d.b9)
             height == UnpackH(d.b10, d.b11)
             single_size == SingleSize(width, height, fmt)
             chn == calculate_mipmap_chain(width, height, fmt)
         IN  Resolve(d, version, fmt, width, height, single_size, chn)

(***************************************************************************)
(* Input files.                                                            *)
(***************************************************************************)
\* low bytes of a dimension field: the block grid is ceil(w / 4) wide, so
\* the files carry the low bytes at a multiple of 4 and just above it
LoBytes == {b \in 0..MaxLoByte : b % 4 \in {0, 1}}
HiBytes == 0..MaxHiByte

\* byte 6: the three known version tags and two unknown ones
VersionBytes == {0, NO_MIPMAPS, COMPACT_MIPMAPS, FULL_MIPMAPS, 255}

\* header lengths: none, the first and last of each window and their outer
\* neighbours, and the fallback header sizes
HeaderProbes ==
    {0, MipHeaderMin - 1, MipHeaderMin, V5HeaderSize, NoMipHeaderMin - 1,
     NoMipHeaderMin, V1HeaderSize, NoMipHeaderMax, NoMipHeaderMax + 1,
     V8HeaderSize, MipHeaderMax, MipHeaderMax + 1}

\* payload lengths: none, the base level alone, the full chain
PayloadProbes(b7, width, height) ==
    {0, SingleSize(width, height, b7),
     calculate_mipmap_chain(width, height, b7).total}

FileLengths(b7, width, height) ==
    {p + h : p \in PayloadProbes(b7, width, height), h \in HeaderProbes}

File(len, magic, b6, b7, b8, b9, b10, b11) ==
    [len |-> len, magic |-> magic, b6 |-> b6, b7 |-> b7,
     b8 |-> b8, b9 |-> b9, b10 |-> b10, b11 |-> b11]

NoFile == File(0, FALSE, 0, 0, 0, 0, 0, 0)

NotCalled == [raised |-> FALSE, error |-> "not called", info |-> NoInfo]

ChainIdle ==
    [pc |-> "idle", width |-> 0, height |-> 0, fmt |-> DXT1,
     w |-> 0, h |-> 0, level |-> 0, total |-> 0, mipmaps |-> <<>>]

\* no codec function has been called
PrimIdle == [pc |-> "idle"]

\* the converter has been asked for nothing
ConvIdle == [pc |-> "idle"]

(***************************************************************************)
(* Spec: one call of _detect_structure on a file.                          *)
(***************************************************************************)
Init ==
    /\ \E magic \in BOOLEAN, b6 \in VersionBytes, b7 \in 0..MaxFormatByte,
          b8 \in LoBytes, b9 \in HiBytes, b10 \in LoBytes, b11 \in HiBytes :
         \E len \in FileLengths(b7, UnpackH(b8, b9), UnpackH(b10, b11)) :
            \* a file whose first four bytes are the magic tag has four bytes
            /\ magic => len >= 4
            /\ data = File(len, magic, b6, b7, b8, b9, b10, b11)
    /\ result = NotCalled
    /\ chain = ChainIdle
    /\ prim = PrimIdle
    /\ conv = ConvIdle

DetectStructure ==
    /\ result = NotCalled
    /\ result' = detect_structure(data)
    /\ UNCHANGED <<data, chain, prim, conv>>

Next == DetectStructure

Spec == Init /\ [][Next]_vars

(***************************************************************************)
(* ChainSpec: one call of calculate_mipmap_chain, one loop iteration per   *)
(* step.  The code runs the loop to its end without waiting on anything,   *)
(* hence the weak fairness of its steps.                                   *)
(***************************************************************************)
ChainInit ==
    /\ data = NoFile
    /\ result = NotCalled
    /\ prim = PrimIdle
    /\ conv = ConvIdle
    /\ \E lo1 \in 0..MaxLoByte, hi1 \in HiBytes,
          lo2 \in 0..MaxLoByte, hi2 \in HiBytes,
          fmt \in {DXT1, DXT3, DXT5} :
         chain = [pc |-> "loop",
                  width |-> UnpackH(lo1, hi1), height |-> UnpackH(lo2, hi2),
                  fmt |-> fmt,
                  w |-> UnpackH(lo1, hi1), h |-> UnpackH(lo2, hi2),
                  level |-> 0, total |-> 0, mipmaps |-> <<>>]

\* the while condition is false: return mipmaps, total
ChainExit ==
    /\ chain.pc = "loop"
    /\ ~LoopCondition(chain.w, chain.h)
    /\ chain' = [chain EXCEPT !.pc = "done"]
    /\ UNCHANGED <<data, result, prim, conv>>

\* one pass through the loop body that ends in break
ChainBreak ==
    /\ chain.pc = "loop"
    /\ chain.level < MaxLevels
    /\ LoopCondition(chain.w, chain.h)
    /\ BreakCondition(chain.w, chain.h)
    /\ LET size == LevelSize(chain.w, chain.h, chain.fmt)
       IN  chain' = [chain EXCEPT
                       !.mipmaps = Append(@, MipmapInfo(chain.level, chain.w,
                                                 chain.h, size, chain.total)),
                       !.total = @ + size,
                       !.pc = "done"]
    /\ UNCHANGED <<data, result, prim, conv>>

\* one pass through the loop body that goes on to the next level
ChainHalve ==
    /\ chain.pc = "loop"
    /\ chain.level < MaxLevels
    /\ LoopCondition(chain.w, chain.h)
    /\ ~BreakCondition(chain.w, chain.h)
    /\ LET size == LevelSize(chain.w, chain.h, chain.fmt)
       IN  chain' = [chain EXCEPT
                       !.mipmaps = Append(@, MipmapInfo(chain.level, chain.w,
                                                 chain.h, size, chain.total)),
                       !.total = @ + size,
                       !.w = HalveDim(@),
                       !.h = HalveDim(@),
                       !.level = @ + 1]
    /\ UNCHANGED <<data, result, prim, conv>>

ChainNext == ChainExit \/ ChainBreak \/ ChainHalve

ChainSpec == ChainInit /\ [][ChainNext]_vars /\ WF_vars(ChainNext)

(***************************************************************************)
(* The claims about the structure detector, stated on the file that was    *)
(* given and the result that came back.                                    *)
(***************************************************************************)
Called == result # NotCalled

\* bytes 8-9 and 10-11 of the file, little-endian
HeaderWidth == data.b8 + 256 * data.b9
HeaderHeight == data.b10 + 256 * data.b11

\* valid magic, length >= 12 and format id in 0..2
WellFormed == data.magic /\ data.len >= 12 /\ data.b7 \in {0, 1, 2}

CandidateA == data.len - SingleSize(HeaderWidth, HeaderHeight, data.b7)
CandidateB ==
    data.len - calculate_mipmap_chain(HeaderWidth, HeaderHeight, data.b7).total

InWindowA == 12 <= CandidateA /\ CandidateA <= 64
InWindowB == 8 <= CandidateB /\ CandidateB <= 256

FullChain == calculate_mipmap_chain(HeaderWidth, HeaderHeight, data.b7).mipmaps

SingleLevel ==
    <<[level |-> 0, width |-> HeaderWidth, height |-> HeaderHeight,
       size |-> SingleSize(HeaderWidth, HeaderHeight, data.b7), offset |-> 0]>>

\* version 1, DXT5, 8x8: an 18-byte header and 64 payload bytes
ExampleFile == File(82, TRUE, 1, 2, 8, 0, 8, 0)

\* C1: when candidate_a = file length - single_size lies in 12..64, detection
\* returns the no-mipmap variant: header length candidate_a, has_mipmaps
\* false, mip count 1 and the single level (0, width, height, single_size, 0),
\* whatever the version tag and candidate_b are; the version-1 DXT5 8x8 file
\* of 18 + 64 bytes reports 8x8, DXT5, header length 18 and mip count 1.
C1_NoMipmapWindow ==
    (Called /\ WellFormed /\ InWindowA) =>
        /\ ~result.raised
        /\ result.info.header_size = CandidateA
        /\ result.info.has_mipmaps = FALSE
        /\ result.info.mipmap_count = 1
        /\ result.info.mipmaps = SingleLevel
        /\ (data = ExampleFile =>
               /\ result.info.width = 8
               /\ result.info.height = 8
               /\ result.info.format = DXT5
               /\ result.info.header_size = 18
               /\ result.info.mipmap_count = 1)

\* both candidates lie in their windows and differ, and the no-mipmap
\* variant came back
C1_Witness ==
    /\ Called /\ WellFormed /\ InWindowA /\ InWindowB
    /\ CandidateA # CandidateB
    /\ data.b6 \notin {1, 5, 8}
    /\ ~result.raised /\ ~result.info.has_mipmaps
    /\ result.info.header_size = CandidateA

\* C2: when candidate_a is outside 12..64 and candidate_b = file length -
\* mip_total lies in 8..256, detection returns the mipmapped variant: header
\* length candidate_b, has_mipmaps true, the levels of the full chain and
\* mip count the length of that chain.
C2_MipmapWindow ==
    (Called /\ WellFormed /\ ~InWindowA /\ InWindowB) =>
        /\ ~result.raised
        /\ result.info.header_size = CandidateB
        /\ result.info.has_mipmaps = TRUE
        /\ result.info.mipmaps = FullChain
        /\ result.info.mipmap_count = Len(FullChain)

C2_Witness ==
    /\ Called /\ WellFormed /\ ~InWindowA /\ InWindowB
    /\ CandidateB = 256
    /\ ~result.raised /\ result.info.has_mipmaps
    /\ Len(result.info.mipmaps) >= 3

\* C3: when neither candidate lies in its window, the version tag decides:
\* 1 gives header length 18 with the single level and no mipmaps, 5 gives
\* header length 10 with the full chain, 8 gives header length 88 with the
\* full chain, and any other tag makes detection fail with no info.
C3_VersionFallback ==
    (Called /\ WellFormed /\ ~InWindowA /\ ~InWindowB) =>
        /\ data.b6 = 1 =>
              /\ ~result.raised
              /\ result.info.header_size = 18
              /\ result.info.has_mipmaps = FALSE
              /\ result.info.mipmaps = SingleLevel
        /\ data.b6 = 5 =>
              /\ ~result.raised
              /\ result.info.header_size = 10
              /\ result.info.has_mipmaps = TRUE
              /\ result.info.mipmaps = FullChain
        /\ data.b6 = 8 =>
              /\ ~result.raised
              /\ result.info.header_size = 88
              /\ result.info.has_mipmaps = TRUE
              /\ result.info.mipmaps = FullChain
        /\ data.b6 \notin {1, 5, 8} =>
              /\ result.raised
              /\ result.info = NoInfo

C3_Witness ==
    /\ Called /\ WellFormed /\ ~InWindowA /\ ~InWindowB
    /\ data.b6 = 5
    /\ ~result.raised /\ result.info.header_size = 10
    /\ Len(result.info.mipmaps) >= 2

PositiveDimensions == HeaderWidth >= 1 /\ HeaderHeight >= 1

\* C4 as stated: every container with version tag 8 whose mip_header lies in
\* 8..256 is classified as mipmapped with header length mip_header, never as
\* the no-mipmap variant.  Stated here for the headers with positive
\* dimensions, where it already fails.
C4_Version8AlwaysMipmapped ==
    (Called /\ WellFormed /\ PositiveDimensions /\ data.b6 = 8 /\ InWindowB) =>
        /\ ~result.raised
        /\ result.info.has_mipmaps = TRUE
        /\ result.info.header_size = CandidateB
        /\ result.info.mipmaps = FullChain

\* C4 amended: a container with version tag 8 whose mip_header lies in 8..256
\* and whose no_mip_header = file length - single_size lies outside 12..64 is
\* classified as mipmapped with header length mip_header, not as the
\* no-mipmap variant and not with the fallback length 88.
C4_Version8MipmappedUnlessNoMipWindow ==
    (Called /\ WellFormed /\ data.b6 = 8 /\ InWindowB /\ ~InWindowA) =>
        /\ ~result.raised
        /\ result.info.has_mipmaps = TRUE
        /\ result.info.header_size = CandidateB
        /\ result.info.mipmaps = FullChain

C4_Witness ==
    /\ Called /\ WellFormed /\ data.b6 = 8 /\ InWindowB /\ ~InWindowA
    /\ ~result.raised /\ result.info.has_mipmaps
    /\ result.info.header_size = CandidateB
    /\ result.info.header_size # 88

\* C5: detection fails, returning no info, for every input shorter than 12
\* bytes and every input whose first 4 bytes are not the magic tag; the check
\* comes first, so the failure is that of the check whatever the other
\* fields hold.
C5_LengthAndMagicFirst ==
    (Called /\ (data.len < 12 \/ ~data.magic)) =>
        /\ result.raised
        /\ result.error = "Invalid KTEX file"
        /\ result.info = NoInfo

\* a long enough file with a bad magic tag and a bad format id
C5_Witness ==
    /\ Called /\ ~data.magic /\ data.len >= 12
    /\ data.b7 \notin {0, 1, 2}
    /\ result.raised /\ result.error = "Invalid KTEX file"

\* C6: detection fails for every input whose byte 7 is not 0, 1 or 2,
\* whatever the length, version tag and dimensions are.
C6_FormatIdOutOfRange ==
    (Called /\ data.len >= 8 /\ data.b7 \notin {0, 1, 2}) =>
        /\ result.raised
        /\ result.info = NoInfo

\* a file with the magic tag, a known version, a bad format id and a length
\* that would put a size candidate in its window
C6_Witness ==
    /\ Called /\ data.magic /\ data.len >= 12
    /\ data.b7 \notin {0, 1, 2}
    /\ data.b6 = 1
    /\ InWindowA
    /\ result.raised /\ result.error = "not a valid DXTFormat"

RECURSIVE SumSizes(_)
SumSizes(levels) ==
    IF levels = <<>> THEN 0
    ELSE levels[1].size + SumSizes(Tail(levels))

\* C7: for every info returned through a size-arithmetic resolution (step 3
\* or step 4), the sizes of its levels add up to file length - header_size.
C7_LevelsFillThePayload ==
    (Called /\ ~result.raised /\ (InWindowA \/ InWindowB)) =>
        SumSizes(result.info.mipmaps) = data.len - result.info.header_size

C7_Witness ==
    /\ Called /\ ~result.raised /\ ~InWindowA /\ InWindowB
    /\ Len(result.info.mipmaps) >= 3
    /\ SumSizes(result.info.mipmaps) = data.len - result.info.header_size

\* C8 as stated: every info that detection returns carries a version tag
\* that is 1, 5 or 8.  Stated here for the headers with positive dimensions,
\* where it already fails.
C8_VersionTagKnown ==
    (Called /\ PositiveDimensions /\ ~result.raised) =>
        result.info.version \in {1, 5, 8}

\* C9 as stated: every info that detection returns has a non-empty level
\* list, numbered 0, 1, 2, ... in order, each level with width > 0 and
\* height > 0, and level 0 has the header's width and height.
C9_LevelsWellFormed ==
    (Called /\ ~result.raised) =>
        /\ Len(result.info.mipmaps) >= 1
        /\ \A i \in 1..Len(result.info.mipmaps) :
              /\ result.info.mipmaps[i].level = i - 1
              /\ result.info.mipmaps[i].width > 0
              /\ result.info.mipmaps[i].height > 0
        /\ result.info.mipmaps[1].width = HeaderWidth
        /\ result.info.mipmaps[1].height = HeaderHeight

(***************************************************************************)
(* The claims about the chain builder, stated on the loop of ChainSpec.    *)
(***************************************************************************)
ChainValidArgs == chain.width >= 1 /\ chain.height >= 1

NonIncreasing(levels) ==
    \A i \in 1..(Len(levels) - 1) :
        /\ levels[i + 1].width <= levels[i].width
        /\ levels[i + 1].height <= levels[i].height

LastLevelSmall(levels) ==
    /\ Len(levels) >= 1
    /\ levels[Len(levels)].width <= 4
    /\ levels[Len(levels)].height <= 4

\* C10: for every width >= 1, height >= 1 and each format, building the
\* chain terminates, every level is no wider and no higher than the level
\* before it, and the last level has both dimensions <= 4.
C10_ChainTerminates ==
    /\ (ChainValidArgs ~> (chain.pc = "done"))
    /\ [](ChainValidArgs => NonIncreasing(chain.mipmaps))
    /\ []((ChainValidArgs /\ chain.pc = "done") =>
              LastLevelSmall(chain.mipmaps))

C10_Witness ==
    /\ ChainValidArgs /\ chain.pc = "done"
    /\ chain.width > 256 /\ chain.height = 1
    /\ Len(chain.mipmaps) >= 7
    /\ LastLevelSmall(chain.mipmaps)

(***************************************************************************)
(* Colour and alpha primitives.                                            *)
(***************************************************************************)
\* bound: the green and blue inputs of a colour are the red input moved by
\* up to MaxChannelShift steps of ChannelStride (modulo 256)
MaxChannelShift == 3

\* RGB565_R = tuple((i * 255 + 15) // 31 for i in range(32))
RGB565_R(i) == (i * 255 + 15) \div 31
\* RGB565_G = tuple((i * 255 + 31) // 63 for i in range(64))
RGB565_G(i) == (i * 255 + 31) \div 63
\* RGB565_B = tuple((i * 255 + 15) // 31 for i in range(32))
RGB565_B(i) == (i * 255 + 15) \div 31

\* (RGB565_R[(c >> 11) & 0x1F], RGB565_G[(c >> 5) & 0x3F], RGB565_B[c & 0x1F])
rgb565_to_rgb(c) ==
    <<RGB565_R((c \div 2048) % 32), RGB565_G((c \div 32) % 64),
      RGB565_B(c % 32)>>

\* ((r >> 3) << 11) | ((g >> 2) << 5) | (b >> 3): the three fields do not
\* overlap, so the bitwise or is their sum
rgb_to_rgb565(r, g, b) ==
    (r \div 8) * 2048 + (g \div 4) * 32 + (b \div 8)

\* mutant: the first branch is taken for a0 >= a1
build_alpha_table_GE(a0, a1) ==
    IF a0 >= a1
    THEN <<a0, a1,
           (6 * a0 + 1 * a1) \div 7, (5 * a0 + 2 * a1) \div 7,
           (4 * a0 + 3 * a1) \div 7, (3 * a0 + 4 * a1) \div 7,
           (2 * a0 + 5 * a1) \div 7, (1 * a0 + 6 * a1) \div 7>>
    ELSE <<a0, a1,
           (4 * a0 + 1 * a1) \div 5, (3 * a0 + 2 * a1) \div 5,
           (2 * a0 + 3 * a1) \div 5, (1 * a0 + 4 * a1) \div 5,
           0, 255>>

\* mutant: the interpolation weights of the first branch run the other way
build_alpha_table_Reversed(a0, a1) ==
    IF a0 > a1
    THEN <<a0, a1,
           (1 * a0 + 6 * a1) \div 7, (2 * a0 + 5 * a1) \div 7,
           (3 * a0 + 4 * a1) \div 7, (4 * a0 + 3 * a1) \div 7,
           (5 * a0 + 2 * a1) \div 7, (6 * a0 + 1 * a1) \div 7>>
    ELSE <<a0, a1,
           (4 * a0 + 1 * a1) \div 5, (3 * a0 + 2 * a1) \div 5,
           (2 * a0 + 3 * a1) \div 5, (1 * a0 + 4 * a1) \div 5,
           0, 255>>

\* entry i of the Python list is element i + 1 of the sequence
build_alpha_table(a0, a1) ==
    IF a0 > a1
    THEN <<a0, a1,
           (6 * a0 + 1 * a1) \div 7, (5 * a0 + 2 * a1) \div 7,
           (4 * a0 + 3 * a1) \div 7, (3 * a0 + 4 * a1) \div 7,
           (2 * a0 + 5 * a1) \div 7, (1 * a0 + 6 * a1) \div 7>>
    ELSE <<a0, a1,
           (4 * a0 + 1 * a1) \div 5, (3 * a0 + 2 * a1) \div 5,
           (2 * a0 + 3 * a1) \div 5, (1 * a0 + 4 * a1) \div 5,
           0, 255>>

\* abs(a - b)
Dist(a, b) == IF a >= b THEN a - b ELSE b - a

(***************************************************************************)
(* DXT block codec.  A pixel is <<r, g, b, a>>, a block of pixels is a     *)
(* sequence of 16 pixels in row-major order, an encoded block is its       *)
(* sequence of bytes.                                                      *)
(***************************************************************************)
\* self.weights = (0.299, 0.587, 0.114), in thousandths
Weights == <<299, 587, 114>>

MinOf(S) == CHOOSE x \in S : \A y \in S : x <= y
MaxOf(S) == CHOOSE x \in S : \A y \in S : x >= y

\* struct.pack('<H', v)
PackH(v) == <<v % 256, v \div 256>>

\* [(p[0], p[1], p[2]) for p in pixels]
ColorsOf(pixels) ==
    [i \in 1..Len(pixels) |-> <<pixels[i][1], pixels[i][2], pixels[i][3]>>]

\* DXTEncoder._find_endpoints, for a non-empty list of colours
find_endpoints(colors) ==
    LET min_c == [k \in 1..3 |-> MinOf({colors[i][k] : i \in 1..Len(colors)})]
        max_c == [k \in 1..3 |-> MaxOf({colors[i][k] : i \in 1..Len(colors)})]
    IN  IF max_c = min_c
        THEN [c0 |-> max_c, c1 |-> [k \in 1..3 |-> Min(255, max_c[k] + 1)]]
        ELSE [c0 |-> max_c, c1 |-> min_c]

\* [c0, c1, (2*c0 + c1) // 3, (c0 + 2*c1) // 3], channel by channel
FourColors(c0, c1) ==
    <<c0, c1,
      [k \in 1..3 |-> (2 * c0[k] + c1[k]) \div 3],
      [k \in 1..3 |-> (c0[k] + 2 * c1[k]) \div 3]>>

\* DXTEncoder._color_distance, in thousandths
color_distance(c1, c2) ==
    Weights[1] * (c1[1] - c2[1]) * (c1[1] - c2[1])
    + Weights[2] * (c1[2] - c2[2]) * (c1[2] - c2[2])
    + Weights[3] * (c1[3] - c2[3]) * (c1[3] - c2[3])

\* min(range(4), key=...): the first index of the least distance
BestColorIndex(color, color_table) ==
    CHOOSE idx \in 0..3 :
        /\ \A j \in 0..3 : color_distance(color, color_table[idx + 1])
                             <= color_distance(color, color_table[j + 1])
        /\ \A j \in 0..(idx - 1) :
              color_distance(color, color_table[j + 1])
                > color_distance(color, color_table[idx + 1])

\* min(range(8), key=lambda idx: abs(a - alpha_table[idx]))
BestAlphaIndex(a, alpha_table) ==
    CHOOSE idx \in 0..7 :
        /\ \A j \in 0..7 : Dist(a, alpha_table[idx + 1])
                             <= Dist(a, alpha_table[j + 1])
        /\ \A j \in 0..(idx - 1) :
              Dist(a, alpha_table[j + 1]) > Dist(a, alpha_table[idx + 1])

\* color_bits |= best_idx << (i * 2), packed '<I': byte k holds the indices
\* of pixels 4k .. 4k+3
ColorBitsBytes(indices) ==
    [k \in 1..4 |-> indices[4 * k - 3] + 4 * indices[4 * k - 2]
                    + 16 * indices[4 * k - 1] + 64 * indices[4 * k]]

\* alpha_bits |= (p[3] // 17) << (i * 4), packed '<Q': byte k holds the
\* nibbles of pixels 2k and 2k+1
Dxt3AlphaBytes(pixels) ==
    [k \in 1..8 |-> (pixels[2 * k - 1][4] \div 17)
                    + 16 * (pixels[2 * k][4] \div 17)]

\* bit n (0-based) of alpha_bits, where alpha_bits |= best_idx << (i * 3)
AlphaBit(indices, n) == (indices[(n \div 3) + 1] \div (2 ^ (n % 3))) % 2

\* block[2 + i] = (alpha_bits >> (i * 8)) & 0xFF
Dxt5AlphaBytes(indices) ==
    [k \in 1..6 |->
        AlphaBit(indices, 8 * k - 8) + 2 * AlphaBit(indices, 8 * k - 7)
        + 4 * AlphaBit(indices, 8 * k - 6) + 8 * AlphaBit(indices, 8 * k - 5)
        + 16 * AlphaBit(indices, 8 * k - 4) + 32 * AlphaBit(indices, 8 * k - 3)
        + 64 * AlphaBit(indices, 8 * k - 2)
        + 128 * AlphaBit(indices, 8 * k - 1)]

\* c0, c1, c0_565, c1_565 of _encode_dxt5_block and _encode_dxt3_block once
\* the swap is done
ColorEndpoints(pixels) ==
    LET ends == find_endpoints(ColorsOf(pixels))
        q0 == rgb_to_rgb565(ends.c0[1], ends.c0[2], ends.c0[3])
        q1 == rgb_to_rgb565(ends.c1[1], ends.c1[2], ends.c1[3])
        swap == q0 < q1
    IN  [c0 |-> IF swap THEN ends.c1 ELSE ends.c0,
         c1 |-> IF swap THEN ends.c0 ELSE ends.c1,
         c0_565 |-> IF swap THEN q1 ELSE q0,
         c1_565 |-> IF swap THEN q0 ELSE q1]

\* c0, c1, c0_565, c1_565 of _encode_dxt1_block once the swap, or else the
\* increment of equal codes, is done
Dxt1Endpoints(pixels) ==
    LET ends == find_endpoints(ColorsOf(pixels))
        q0 == rgb_to_rgb565(ends.c0[1], ends.c0[2], ends.c0[3])
        q1 == rgb_to_rgb565(ends.c1[1], ends.c1[2], ends.c1[3])
        swap == q0 < q1
    IN  [c0 |-> IF swap THEN ends.c1 ELSE ends.c0,
         c1 |-> IF swap THEN ends.c0 ELSE ends.c1,
         c0_565 |-> IF swap THEN q1
                    ELSE IF q0 = q1 THEN Min(65535, q0 + 1) ELSE q0,
         c1_565 |-> IF swap THEN q0 ELSE q1]

\* the endpoints by format
EndpointsOf(pixels, fmt) ==
    IF fmt = DXT1 THEN Dxt1Endpoints(pixels) ELSE ColorEndpoints(pixels)

\* color_table of the block encoders
color_table_of(pixels, fmt) ==
    FourColors(EndpointsOf(pixels, fmt).c0, EndpointsOf(pixels, fmt).c1)

\* the codes, then the index of the nearest colour_table entry per pixel
EncodeColors(pixels, fmt) ==
    LET colors == ColorsOf(pixels)
        ends == EndpointsOf(pixels, fmt)
        color_table == color_table_of(pixels, fmt)
        indices == SubSeq([i \in 1..16 |->
                              BestColorIndex(colors[i], color_table)], 1, 16)
    IN  PackH(ends.c0_565) \o PackH(ends.c1_565) \o ColorBitsBytes(indices)

\* the colour part of _encode_dxt5_block and _encode_dxt3_block: endpoints,
\* swap, colour table, indices
EncodeColorBlock(pixels) == EncodeColors(pixels, DXT5)

\* DXTEncoder._encode_dxt1_block
encode_dxt1_block(pixels) == EncodeColors(pixels, DXT1)

\* DXTEncoder._encode_dxt3_block
encode_dxt3_block(pixels) == Dxt3AlphaBytes(pixels) \o EncodeColorBlock(pixels)

\* DXTEncoder._encode_dxt5_block
encode_dxt5_block(pixels) ==
    LET alphas == [i \in 1..16 |-> pixels[i][4]]
        hi == MaxOf({alphas[i] : i \in 1..16})
        a1 == MinOf({alphas[i] : i \in 1..16})
        a0 == IF hi = a1 THEN Min(255, a1 + 1) ELSE hi
        alpha_table == build_alpha_table(a0, a1)
        indices == SubSeq([i \in 1..16 |->
                              BestAlphaIndex(alphas[i], alpha_table)], 1, 16)
    IN  <<a0, a1>> \o Dxt5AlphaBytes(indices) \o EncodeColorBlock(pixels)

\* the dispatch on fmt in DXTEncoder.encode
encode_block(pixels, fmt) ==
    IF fmt = DXT5 THEN encode_dxt5_block(pixels)
    ELSE IF fmt = DXT3 THEN encode_dxt3_block(pixels)
    ELSE encode_dxt1_block(pixels)

\* (bits >> (i * 2)) & 0x3 of the '<I' value in bytes[from .. from + 3]
ColorIndexAt(bytes, from, i) ==
    (bytes[from + (i \div 4)] \div (4 ^ (i % 4))) % 4

\* the 4-colour table of the decoder, from the two codes
DecodedFourColors(c0, c1) == FourColors(rgb565_to_rgb(c0), rgb565_to_rgb(c1))

WithAlpha(rgb, a) == <<rgb[1], rgb[2], rgb[3], a>>

\* mutant: equal codes are decoded in 4-colour mode
decode_dxt1_block_GE(block) ==
    LET c0 == UnpackH(block[1], block[2])
        c1 == UnpackH(block[3], block[4])
        rgb0 == rgb565_to_rgb(c0)
        rgb1 == rgb565_to_rgb(c1)
        colors ==
            IF c0 >= c1
            THEN [k \in 1..4 |-> WithAlpha(FourColors(rgb0, rgb1)[k], 255)]
            ELSE <<WithAlpha(rgb0, 255), WithAlpha(rgb1, 255),
                   WithAlpha([k \in 1..3 |-> (rgb0[k] + rgb1[k]) \div 2], 255),
                   <<0, 0, 0, 0>>>>
    IN  SubSeq([i \in 1..16 |-> colors[ColorIndexAt(block, 5, i - 1) + 1]],
               1, 16)

\* DXTDecoder._decode_dxt1_block
decode_dxt1_block(block) ==
    LET c0 == UnpackH(block[1], block[2])
        c1 == UnpackH(block[3], block[4])
        rgb0 == rgb565_to_rgb(c0)
        rgb1 == rgb565_to_rgb(c1)
        colors ==
            IF c0 > c1
            THEN [k \in 1..4 |-> WithAlpha(FourColors(rgb0, rgb1)[k], 255)]
            ELSE <<WithAlpha(rgb0, 255), WithAlpha(rgb1, 255),
                   WithAlpha([k \in 1..3 |-> (rgb0[k] + rgb1[k]) \div 2], 255),
                   <<0, 0, 0, 0>>>>
    IN  SubSeq([i \in 1..16 |-> colors[ColorIndexAt(block, 5, i - 1) + 1]],
               1, 16)

\* DXTDecoder._decode_dxt3_block
decode_dxt3_block(block) ==
    LET colors == DecodedFourColors(UnpackH(block[9], block[10]),
                                    UnpackH(block[11], block[12]))
    IN  SubSeq([i \in 1..16 |->
                   WithAlpha(colors[ColorIndexAt(block, 13, i - 1) + 1],
                             ((block[1 + ((i - 1) \div 2)]
                                 \div (16 ^ ((i - 1) % 2))) % 16) * 17)],
               1, 16)

\* bit n (0-based) of alpha_bits = sum(block[2+i] << (i*8) for i in range(6))
StoredAlphaBit(block, n) == (block[3 + (n \div 8)] \div (2 ^ (n % 8))) % 2

\* (alpha_bits >> (i * 3)) & 0x7
StoredAlphaIndex(block, i) ==
    StoredAlphaBit(block, 3 * i) + 2 * StoredAlphaBit(block, 3 * i + 1)
    + 4 * StoredAlphaBit(block, 3 * i + 2)

\* DXTDecoder._decode_dxt5_block
decode_dxt5_block(block) ==
    LET alpha_table == build_alpha_table(block[1], block[2])
        colors == DecodedFourColors(UnpackH(block[9], block[10]),
                                    UnpackH(block[11], block[12]))
    IN  SubSeq([i \in 1..16 |->
                   WithAlpha(colors[ColorIndexAt(block, 13, i - 1) + 1],
                             alpha_table[StoredAlphaIndex(block, i - 1) + 1])],
               1, 16)

\* the dispatch on fmt in DXTDecoder.decode
decode_block(block, fmt) ==
    IF fmt = DXT5 THEN decode_dxt5_block(block)
    ELSE IF fmt = DXT3 THEN decode_dxt3_block(block)
    ELSE decode_dxt1_block(block)

(***************************************************************************)
(* CodecSpec: one call of a codec function on inputs drawn by the initial  *)
(* state.                                                                  *)
(***************************************************************************)
ChannelStride == 37

\* the colours handed to the conversions: every value of the red channel,
\* green and blue a few strides away from it
Shifted(r, d) == (r + ChannelStride * d) % 256

\* rgb565_to_rgb(rgb_to_rgb565(r, g, b)) is asked for
ColorCall(r, g, b) ==
    [pc |-> "rgb", r |-> r, g |-> g, b |-> b, code |-> 0, rgb |-> <<0, 0, 0>>]

\* build_alpha_table(a0, a1) is asked for
AlphaCall(a0, a1) == [pc |-> "alpha", a0 |-> a0, a1 |-> a1, table |-> <<>>]

\* a block of 16 pixels of one colour
UniformBlock(px) == [i \in 1..16 |-> px]

\* decode(encode(block)) of one 4x4 block is asked for in format fmt
BlockCall(pixels, fmt) ==
    [pc |-> "block", pixels |-> pixels, fmt |-> fmt, encoded |-> <<>>,
     decoded |-> <<>>, color_table |-> <<>>]

\* the colours of the blocks that are not of one colour: black, white, the
\* lowest colour of white's RGB565 bucket and one in between, a dark grey,
\* two saturated colours
ColorProbes ==
    {<<0, 0, 0>>, <<255, 255, 255>>, <<248, 252, 248>>, <<250, 253, 250>>,
     <<16, 16, 16>>, <<255, 0, 0>>, <<0, 0, 250>>}

\* the alpha values of those blocks
AlphaProbes == {0, 128, 255}

\* a block whose first pixel is p, whose last pixel is q and whose other
\* pixels are m, with alpha a on the first pixel and 255 elsewhere
MixedBlock(p, q, m, a) ==
    [i \in 1..16 |->
        IF i = 1 THEN <<p[1], p[2], p[3], a>>
        ELSE IF i = 16 THEN <<q[1], q[2], q[3], 255>>
        ELSE <<m[1], m[2], m[3], 255>>]

\* the endpoint codes of the blocks handed to the decoder: the ends of the
\* range, single channels, neighbours
EndpointCodes == {0, 1, 31, 2016, 2017, 63488, 65534, 65535}

\* the colour bits of those blocks: every index occurs
IndexBytes == {<<27, 228, 0, 255>>, <<170, 85, 57, 198>>}

\* the alpha part of a DXT3 or DXT5 block handed to the decoder
AlphaBytes == <<200, 40, 136, 198, 250, 80, 115, 4>>

\* decode of one stored block in format fmt is asked for
DecodeCall(c0, c1, bits, fmt) ==
    [pc |-> "decode", fmt |-> fmt,
     block |-> (IF fmt = DXT1 THEN <<>> ELSE AlphaBytes)
               \o PackH(c0) \o PackH(c1) \o bits,
     decoded |-> <<>>]

CodecInit ==
    /\ data = NoFile
    /\ result = NotCalled
    /\ chain = ChainIdle
    /\ conv = ConvIdle
    /\ \/ \E r \in 0..255, dg \in 0..MaxChannelShift,
             db \in 0..MaxChannelShift :
            prim = ColorCall(r, Shifted(r, dg), Shifted(r, db))
       \/ \E a0 \in 0..255, a1 \in 0..255 : prim = AlphaCall(a0, a1)
       \/ \E r \in 0..255, dg \in 0..MaxChannelShift,
             db \in 0..MaxChannelShift, fmt \in {DXT1, DXT3, DXT5} :
            prim = BlockCall(
                UniformBlock(<<r, Shifted(r, dg), Shifted(r, db), 255>>), fmt)
       \/ \E p \in ColorProbes, q \in ColorProbes, m \in ColorProbes,
             a \in AlphaProbes, fmt \in {DXT1, DXT3, DXT5} :
            prim = BlockCall(MixedBlock(p, q, m, a), fmt)
       \/ \E c0 \in EndpointCodes, c1 \in EndpointCodes, bits \in IndexBytes,
             fmt \in {DXT1, DXT3, DXT5} :
            prim = DecodeCall(c0, c1, bits, fmt)

ColorRoundTrip ==
    /\ prim.pc = "rgb"
    /\ LET code == rgb_to_rgb565(prim.r, prim.g, prim.b)
       IN  prim' = [prim EXCEPT !.pc = "rgb done", !.code = code,
                                !.rgb = rgb565_to_rgb(code)]
    /\ UNCHANGED <<data, result, chain, conv>>

AlphaTable ==
    /\ prim.pc = "alpha"
    /\ prim' = [prim EXCEPT !.pc = "alpha done",
                            !.table = build_alpha_table(prim.a0, prim.a1)]
    /\ UNCHANGED <<data, result, chain, conv>>

\* one block through DXTEncoder.encode and DXTDecoder.decode
EncodeDecodeBlock ==
    /\ prim.pc = "block"
    /\ LET encoded == encode_block(prim.pixels, prim.fmt)
       IN  prim' = [prim EXCEPT !.pc = "block done", !.encoded = encoded,
                                !.decoded = decode_block(encoded, prim.fmt),
                                !.color_table =
                                    color_table_of(prim.pixels, prim.fmt)]
    /\ UNCHANGED <<data, result, chain, conv>>

\* one stored block through the block decoder of its format
DecodeBlock ==
    /\ prim.pc = "decode"
    /\ prim' = [prim EXCEPT !.pc = "decode done",
                            !.decoded = decode_block(prim.block, prim.fmt)]
    /\ UNCHANGED <<data, result, chain, conv>>

CodecNext ==
    ColorRoundTrip \/ AlphaTable \/ EncodeDecodeBlock \/ DecodeBlock

CodecSpec == CodecInit /\ [][CodecNext]_vars

(***************************************************************************)
(* The claims about the colour and alpha primitives.                       *)
(***************************************************************************)
\* C11 as stated: for every r, g, b in 0..255 the round trip
\* rgb565_to_rgb(rgb_to_rgb565(r, g, b)) differs from (r, g, b) by at most 4
\* in red, at most 4 in blue and at most 2 in green.
C11_RoundTripWithinRounding ==
    prim.pc = "rgb done" =>
        /\ Dist(prim.rgb[1], prim.r) <= 4
        /\ Dist(prim.rgb[3], prim.b) <= 4
        /\ Dist(prim.rgb[2], prim.g) <= 2

\* C12: build_alpha_table(a0, a1) has 8 entries, entry 0 is a0 and entry 1
\* is a1; when a0 <= a1, entry 6 is 0 and entry 7 is 255.
C12_AlphaTableEnds ==
    prim.pc = "alpha done" =>
        /\ Len(prim.table) = 8
        /\ prim.table[1] = prim.a0
        /\ prim.table[2] = prim.a1
        /\ (prim.a0 <= prim.a1 =>
               /\ prim.table[7] = 0
               /\ prim.table[8] = 255)

\* equal endpoints: the table still ends in the two sentinels
C12_Witness ==
    /\ prim.pc = "alpha done"
    /\ prim.a0 = prim.a1 /\ prim.a0 = 128
    /\ prim.table[7] = 0 /\ prim.table[8] = 255

\* C13 as stated: for a0 > a1 the 8 entries, read in index order 0..7, are
\* non-increasing.
C13_AlphaTableIndexOrder ==
    (prim.pc = "alpha done" /\ prim.a0 > prim.a1) =>
        \A i \in 1..7 : prim.table[i + 1] <= prim.table[i]

\* entries 0, 2, 3, 4, 5, 6, 7, 1 of the table, as sequence positions
AlphaRampOrder == <<1, 3, 4, 5, 6, 7, 8, 2>>

\* C13 amended: for a0 > a1 the entries read in the order 0, 2, 3, 4, 5, 6,
\* 7, 1 (a0, the six interpolated values, a1) are non-increasing.
C13_AlphaTableRampOrder ==
    (prim.pc = "alpha done" /\ prim.a0 > prim.a1) =>
        \A i \in 1..7 :
            prim.table[AlphaRampOrder[i + 1]] <= prim.table[AlphaRampOrder[i]]

C13_Witness ==
    /\ prim.pc = "alpha done"
    /\ prim.a0 = 255 /\ prim.a1 = 0
    /\ prim.table[3] > prim.table[2]
    /\ prim.table[8] >= prim.table[2]

(***************************************************************************)
(* The claims about the block codec.                                       *)
(***************************************************************************)
IsUniformOpaque(pixels) ==
    /\ pixels[1][4] = 255
    /\ \A i \in 1..16 : pixels[i] = pixels[1]

\* C14 as stated: a 4x4 block of one opaque colour, encoded and decoded in
\* DXT1, DXT3 or DXT5, comes back with alpha 255 in every pixel and within
\* 8 of the colour in red and blue and within 4 in green.
C14_UniformBlockRoundTrip ==
    (prim.pc = "block done" /\ IsUniformOpaque(prim.pixels)) =>
        \A i \in 1..16 :
            /\ prim.decoded[i][4] = 255
            /\ Dist(prim.decoded[i][1], prim.pixels[i][1]) <= 8
            /\ Dist(prim.decoded[i][3], prim.pixels[i][3]) <= 8
            /\ Dist(prim.decoded[i][2], prim.pixels[i][2]) <= 4

(***************************************************************************)
(* Whole images and whole files.  An image is its size and its pixels in   *)
(* row-major order; a file is its sequence of bytes.                       *)
(***************************************************************************)
\* KTEX_MAGIC = b'KTEX'
KTEX_MAGIC == <<75, 84, 69, 88>>

\* Image.new('RGBA', ...) starts transparent black
BlankPixel == <<0, 0, 0, 0>>

\* bytes[from : to] of Python, 0 <= from
Slice(bytes, from, to) == SubSeq(bytes, from + 1, Min(Len(bytes), to))

\* the fields _detect_structure reads from the bytes of a file
FileOf(bytes) ==
    IF Len(bytes) < MinFileLen
    THEN File(Len(bytes),
              Len(bytes) >= 4 /\ SubSeq(bytes, 1, 4) = KTEX_MAGIC,
              0, 0, 0, 0, 0, 0)
    ELSE File(Len(bytes), SubSeq(bytes, 1, 4) = KTEX_MAGIC, bytes[7],
              bytes[8], bytes[9], bytes[10], bytes[11], bytes[12])

\* DXTDecoder.decode: the blocks are read in row-major order until one does
\* not fit in the data; the pixels of the blocks not read keep their initial
\* value
decode(bytes, width, height, fmt) ==
    LET blocks_w == BlocksAcross(width)
        blocks_h == BlocksAcross(height)
        bs == block_size(fmt)
        read == Min(blocks_w * blocks_h, Len(bytes) \div bs)
        blocks == SubSeq([k \in 1..read |->
                             decode_block(SubSeq(bytes, (k - 1) * bs + 1,
                                                 k * bs), fmt)], 1, read)
    IN  [width |-> width, height |-> height,
         px |-> [n \in 1..(width * height) |->
                    LET x == (n - 1) % width
                        y == (n - 1) \div width
                        k == (y \div 4) * blocks_w + (x \div 4) + 1
                    IN  IF k <= read
                        THEN blocks[k][(y % 4) * 4 + (x % 4) + 1]
                        ELSE BlankPixel]]

\* block_pixels of DXTEncoder.encode for block (bx, by), the coordinates
\* clamped to the image
BlockPixels(image, bx, by) ==
    SubSeq([i \in 1..16 |->
               LET x == Min(bx * 4 + ((i - 1) % 4), image.width - 1)
                   y == Min(by * 4 + ((i - 1) \div 4), image.height - 1)
               IN  image.px[y * image.width + x + 1]], 1, 16)

\* DXTEncoder.encode of an image with positive width and height
encode(image, fmt) ==
    LET blocks_w == BlocksAcross(image.width)
        blocks_h == BlocksAcross(image.height)
        bs == block_size(fmt)
        blocks == SubSeq([k \in 1..(blocks_w * blocks_h) |->
                             encode_block(BlockPixels(image,
                                                      (k - 1) % blocks_w,
                                                      (k - 1) \div blocks_w),
                                          fmt)], 1, blocks_w * blocks_h)
    IN  [n \in 1..(blocks_w * blocks_h * bs) |->
            blocks[((n - 1) \div bs) + 1][((n - 1) % bs) + 1]]

\* the number of blocks of the grid that decode leaves unread
MissingBlocks(bytes, width, height, fmt) ==
    BlocksAcross(width) * BlocksAcross(height)
    - Min(BlocksAcross(width) * BlocksAcross(height),
          Len(bytes) \div block_size(fmt))

(***************************************************************************)
(* KTEXConverter.extract and the sidecar files it writes.                  *)
(***************************************************************************)
NoImage == [width |-> 0, height |-> 0, px |-> <<>>]

\* KTEXInfo.to_dict as read back by json.load; present = FALSE is {}
to_dict(info) ==
    [present |-> TRUE, version |-> info.version, format_id |-> info.format,
     width |-> info.width, height |-> info.height,
     header_size |-> info.header_size, has_mipmaps |-> info.has_mipmaps,
     mipmap_count |-> info.mipmap_count]

NoMeta ==
    [present |-> FALSE, version |-> 0, format_id |-> 0, width |-> 0,
     height |-> 0, header_size |-> 0, has_mipmaps |-> FALSE,
     mipmap_count |-> 0]

\* ConversionResult of extract together with the files written
Extracted(image, header, meta) ==
    [success |-> TRUE, error |-> "", png |-> image, header_file |-> header,
     meta |-> meta]

ExtractFailed(msg) ==
    [success |-> FALSE, error |-> msg, png |-> NoImage, header_file |-> <<>>,
     meta |-> NoMeta]

\* KTEXConverter.extract on the bytes of the input file; the PNG holds the
\* decoded image exactly
extract(bytes) ==
    LET r == detect_structure(FileOf(bytes))
    IN  IF r.raised THEN ExtractFailed(r.error)
        ELSE IF r.info.mipmaps = <<>>
        THEN ExtractFailed("list index out of range")
        ELSE LET info == r.info
                 mip0 == info.mipmaps[1]
                 image_data == Slice(bytes, info.header_size,
                                     info.header_size + mip0.size)
             IN  Extracted(decode(image_data, mip0.width, mip0.height,
                                  info.format),
                           Slice(bytes, 0, info.header_size),
                           to_dict(info))

(***************************************************************************)
(* KTEXConverter.rebuild.                                                  *)
(***************************************************************************)
\* force_mipmaps: None, True, False
Overrides == {"none", "true", "false"}

NoHeader == [present |-> FALSE, bytes |-> <<>>]
HeaderBytes(bytes) == [present |-> TRUE, bytes |-> bytes]

\* KTEXConverter._load_metadata: the header file if it exists, the JSON file
\* if it exists, else the original container if one is named
load_metadata(header_file, json_file, original) ==
    LET header_data == header_file
    IN  IF json_file.present
        THEN [raised |-> FALSE, error |-> "", header_data |-> header_data,
              meta |-> json_file]
        ELSE IF original.present
        THEN LET r == detect_structure(FileOf(original.bytes))
             IN  IF r.raised
                 THEN [raised |-> TRUE, error |-> r.error,
                       header_data |-> NoHeader, meta |-> NoMeta]
                 ELSE [raised |-> FALSE, error |-> "",
                       header_data |->
                           HeaderBytes(Slice(original.bytes, 0,
                                             r.info.header_size)),
                       meta |-> to_dict(r.info)]
        ELSE [raised |-> FALSE, error |-> "", header_data |-> header_data,
              meta |-> NoMeta]

\* bytearray(n) with the magic, the version byte, the format byte and the
\* 16-bit fields that fit written in
ZeroHeader(n, b6, b7, width) ==
    [i \in 1..n |->
        IF i <= 4 THEN KTEX_MAGIC[i]
        ELSE IF i = 7 THEN b6
        ELSE IF i = 8 THEN b7
        ELSE IF i = 9 THEN PackH(width)[1]
        ELSE IF i = 10 THEN PackH(width)[2]
        ELSE 0]

\* header[10:12] = struct.pack('<H', height)
WithHeight(header, height) ==
    [i \in 1..Len(header) |->
        IF i = 11 THEN PackH(height)[1]
        ELSE IF i = 12 THEN PackH(height)[2]
        ELSE header[i]]

\* header[8:10] = struct.pack('<H', width) on a header of 12 bytes or more
WithWidth(header, width) ==
    [i \in 1..Len(header) |->
        IF i = 9 THEN PackH(width)[1]
        ELSE IF i = 10 THEN PackH(width)[2]
        ELSE header[i]]

\* KTEXConverter._create_header
create_header(width, height, fmt, version, has_mipmaps) ==
    IF has_mipmaps /\ version = FULL_MIPMAPS
    THEN WithHeight(ZeroHeader(V8HeaderSize, version, fmt, width), height)
    ELSE IF has_mipmaps /\ version = COMPACT_MIPMAPS
    THEN ZeroHeader(V5HeaderSize, version, fmt, width)
    ELSE WithHeight(ZeroHeader(V1HeaderSize, NO_MIPMAPS, fmt, width), height)

\* mutant: the sidecar's flag is consulted before the override
decide_mipmaps_SidecarFirst(meta, force_mipmaps) ==
    IF meta.present THEN meta.has_mipmaps
    ELSE IF force_mipmaps = "none" THEN TRUE
    ELSE force_mipmaps = "true"

\* has_mipmaps = meta.get('has_mipmaps', True) if force_mipmaps is None
\*               else force_mipmaps
decide_mipmaps(meta, force_mipmaps) ==
    IF force_mipmaps = "none"
    THEN (IF meta.present THEN meta.has_mipmaps ELSE TRUE)
    ELSE force_mipmaps = "true"

\* the levels _encode_with_mipmaps or encoder.encode writes: level 0 is the
\* image itself, the further levels are resampled copies of which only the
\* size is modelled
texture_levels(image, fmt, has_mipmaps) ==
    IF has_mipmaps
    THEN calculate_mipmap_chain(image.width, image.height, fmt).mipmaps
    ELSE <<MipmapInfo(0, image.width, image.height,
                      LevelSize(image.width, image.height, fmt), 0)>>

\* len(result) for a result made of the given pieces
PayloadLength(pieces) ==
    IF pieces = <<>> THEN 0
    ELSE pieces[Len(pieces)].start + pieces[Len(pieces)].len

\* the number of bytes encode returns for an image of the given size
EncodedLength(width, height, fmt) ==
    BlocksAcross(width) * BlocksAcross(height) * block_size(fmt)

\* mutant: every level is padded to a multiple of 16 bytes
ExtendPadded(pieces, level, len) ==
    Append(pieces, [level |-> level, start |-> PayloadLength(pieces),
                    len |-> 16 * ((len + 15) \div 16)])

\* result.extend(mip_data): the piece of a level starts where the result
\* ended
Extend(pieces, level, len) ==
    Append(pieces, [level |-> level, start |-> PayloadLength(pieces),
                    len |-> len])

\* KTEXConverter._encode_with_mipmaps from level k on: each level is the
\* image resized to the level's size and encoded
RECURSIVE encode_with_mipmaps(_, _, _, _)
encode_with_mipmaps(mipmaps, fmt, k, pieces) ==
    IF k > Len(mipmaps) THEN pieces
    ELSE encode_with_mipmaps(
             mipmaps, fmt, k + 1,
             Extend(pieces, mipmaps[k].level,
                    EncodedLength(mipmaps[k].width, mipmaps[k].height, fmt)))

\* texture_data as the pieces it is made of
texture_pieces(image, fmt, has_mipmaps) ==
    IF has_mipmaps
    THEN encode_with_mipmaps(
             calculate_mipmap_chain(image.width, image.height, fmt).mipmaps,
             fmt, 1, <<>>)
    ELSE Extend(<<>>, 0, EncodedLength(image.width, image.height, fmt))

Rebuilt(header, reused, version, fmt, has_mipmaps, levels, level0, payload) ==
    [success |-> TRUE, error |-> "", header |-> header, reused |-> reused,
     version |-> version, fmt |-> fmt, has_mipmaps |-> has_mipmaps,
     levels |-> levels, level0 |-> level0, payload |-> payload]

RebuildFailed(msg) ==
    [success |-> FALSE, error |-> msg, header |-> <<>>, reused |-> FALSE,
     version |-> 0, fmt |-> 0, has_mipmaps |-> FALSE, levels |-> <<>>,
     level0 |-> <<>>, payload |-> <<>>]

\* KTEXConverter.rebuild of an image with positive width and height.  The
\* file written is header ++ level0 ++ the bytes of the further levels.
rebuild(image, header_file, json_file, original, force_mipmaps) ==
    LET loaded == load_metadata(header_file, json_file, original)
    IN  IF loaded.raised THEN RebuildFailed(loaded.error)
        ELSE
        LET meta == loaded.meta
            header_data == loaded.header_data
            fmt == IF meta.present THEN meta.format_id ELSE DXT5
            has_mipmaps == decide_mipmaps(meta, force_mipmaps)
            version == IF meta.present THEN meta.version
                       ELSE IF has_mipmaps THEN FULL_MIPMAPS ELSE NO_MIPMAPS
            levels == texture_levels(image, fmt, has_mipmaps)
            level0 == encode(image, fmt)
            reuse == header_data.present /\ Len(header_data.bytes) >= 12
        IN  Rebuilt(IF reuse
                    THEN WithHeight(WithWidth(header_data.bytes, image.width),
                                    image.height)
                    ELSE create_header(image.width, image.height, fmt,
                                       version, has_mipmaps),
                    reuse, version, fmt, has_mipmaps, levels, level0,
                    texture_pieces(image, fmt, has_mipmaps))

(***************************************************************************)
(* ConvSpec: one container is extracted, then the extracted image is       *)
(* rebuilt with some of the sidecar files and some override.               *)
(***************************************************************************)
MaxSide == 5
FillStride == 37
FillSeed == 5

\* widths and heights of the containers: one block, a full block, a block
\* and a bit
Sides == {s \in 1..MaxSide : s % 4 \in {0, 1}}

\* the bytes of a container that are not header fields, by 0-based position
FillByte(i) == (FillSeed + FillStride * i) % 256

\* a container of 12 + tail bytes with the given header fields
SourceFile(magic, b6, b7, width, height, tail) ==
    [i \in 1..(12 + tail) |->
        IF i <= 4 THEN (IF magic \/ i < 4 THEN KTEX_MAGIC[i] ELSE 0)
        ELSE IF i = 7 THEN b6
        ELSE IF i = 8 THEN b7
        ELSE IF i = 9 THEN PackH(width)[1]
        ELSE IF i = 10 THEN PackH(width)[2]
        ELSE IF i = 11 THEN PackH(height)[1]
        ELSE IF i = 12 THEN PackH(height)[2]
        ELSE FillByte(i - 1)]

\* the numbers of bytes after the twelfth: nothing, a stub, the single
\* level and the full chain behind headers of 8, 10, 12, 18 and 88 bytes
TailLengths(b7, width, height) ==
    LET single == SingleSize(width, height, b7)
        total == calculate_mipmap_chain(width, height, b7).total
    IN  {0, 3, single, single + V1HeaderSize - 12, total - 4, total - 2,
         total, total + V8HeaderSize - 12}

ConvStart(bytes) ==
    [pc |-> "start", src |-> bytes, ex |-> ExtractFailed("not run"),
     force |-> "none", keep_header |-> FALSE, keep_json |-> FALSE,
     original |-> FALSE, rb |-> RebuildFailed("not run")]

ConvInit ==
    /\ data = NoFile
    /\ result = NotCalled
    /\ chain = ChainIdle
    /\ prim = PrimIdle
    /\ \E magic \in BOOLEAN, b6 \in VersionBytes \ {255},
          b7 \in 0..MaxFormatByte, width \in Sides, height \in Sides :
          \E tail \in TailLengths(b7, width, height) :
             conv = ConvStart(SourceFile(magic, b6, b7, width, height, tail))

\* extract(input_path)
Extract ==
    /\ conv.pc = "start"
    /\ conv' = [conv EXCEPT !.pc = "extracted", !.ex = extract(conv.src)]
    /\ UNCHANGED <<data, result, chain, prim>>

\* rebuild(png, original_ktex, force_mipmaps) after a successful extract;
\* either sidecar file may have been removed in between, and the original
\* container is named only when the JSON file is gone
Rebuild ==
    /\ conv.pc = "extracted"
    /\ conv.ex.success
    /\ \E force \in Overrides, keep_header \in BOOLEAN, keep_json \in BOOLEAN,
          original \in BOOLEAN :
          /\ original => ~keep_json
          /\ conv' = [conv EXCEPT
                       !.pc = "rebuilt", !.force = force,
                       !.keep_header = keep_header, !.keep_json = keep_json,
                       !.original = original,
                       !.rb = rebuild(conv.ex.png,
                                      IF keep_header
                                      THEN HeaderBytes(conv.ex.header_file)
                                      ELSE NoHeader,
                                      IF keep_json THEN conv.ex.meta
                                      ELSE NoMeta,
                                      IF original THEN HeaderBytes(conv.src)
                                      ELSE NoHeader,
                                      force)]
    /\ UNCHANGED <<data, result, chain, prim>>

ConvNext == Extract \/ Rebuild

ConvSpec == ConvInit /\ [][ConvNext]_vars

(***************************************************************************)
(* The claims about extract and rebuild.                                   *)
(***************************************************************************)
\* the structure _detect_structure finds in the container at hand
Detected == detect_structure(FileOf(conv.src))

\* the slice of the container handed to decode for level 0
ImageData ==
    Slice(conv.src, Detected.info.header_size,
          Detected.info.header_size + Detected.info.mipmaps[1].size)

\* some block of the level-0 grid gets a slice shorter than a block
ShortOfData ==
    /\ ~Detected.raised
    /\ Detected.info.mipmaps # <<>>
    /\ MissingBlocks(ImageData, Detected.info.mipmaps[1].width,
                     Detected.info.mipmaps[1].height,
                     Detected.info.format) > 0

\* C15 as stated: when the pixel data of the level holds fewer bytes than
\* its block grid needs, extraction of that file reports success = false.
C15_ShortDataFails ==
    (conv.pc # "start" /\ ShortOfData) => ~conv.ex.success


\* the first bytes of the file rebuild writes: header, then level 0
Written == conv.rb.header \o conv.rb.level0

\* rebuild ran on the files extract wrote, without an override
PlainRoundTrip ==
    /\ conv.pc = "rebuilt"
    /\ conv.keep_header /\ conv.keep_json
    /\ conv.force = "none"

\* C16 as stated: extract, then rebuild with the sidecar files extraction
\* wrote and no override, writes a file whose format id (byte 7), width
\* (bytes 8-9) and height (bytes 10-11) equal the source's, for every
\* version and every way the header length was resolved.
C16_RoundTripKeepsFields ==
    PlainRoundTrip =>
        /\ conv.rb.success
        /\ \A i \in 8..12 : Written[i] = conv.src[i]


\* rebuild had header bytes to reuse: the header file, or the header of the
\* original container
HeaderAvailable == conv.keep_header \/ conv.original

\* C17 as stated: with sidecar header bytes available the file written has
\* those bytes as its header, same length and same content, except that
\* bytes 8-11 hold the image's width and height; for every header length
\* the detector resolves.
C17_HeaderReusedVerbatim ==
    (conv.pc = "rebuilt" /\ HeaderAvailable) =>
        /\ conv.rb.success
        /\ Len(conv.rb.header) = Len(conv.ex.header_file)
        /\ \A i \in 1..Len(conv.ex.header_file) :
              i \notin 9..12 => conv.rb.header[i] = conv.ex.header_file[i]
        /\ SubSeq(Written, 9, 10) = PackH(conv.ex.png.width)
        /\ SubSeq(Written, 11, 12) = PackH(conv.ex.png.height)

\* C18 as stated: with no sidecar header to reuse, the synthesized header
\* carries the magic in bytes 0-3, the requested version in byte 6, the
\* requested format id in byte 7, the width in bytes 8-9 and the height in
\* bytes 10-11, for every requested version 1, 5, 8, format and mipmap
\* choice.
C18_SynthesizedHeaderFields ==
    (/\ conv.pc = "rebuilt"
     /\ ~HeaderAvailable
     /\ conv.rb.version \in {NO_MIPMAPS, COMPACT_MIPMAPS, FULL_MIPMAPS}) =>
        /\ conv.rb.success
        /\ Len(conv.rb.header) >= 12
        /\ SubSeq(conv.rb.header, 1, 4) = KTEX_MAGIC
        /\ conv.rb.header[7] = conv.rb.version
        /\ conv.rb.header[8] = conv.rb.fmt
        /\ SubSeq(conv.rb.header, 9, 10) = PackH(conv.ex.png.width)
        /\ SubSeq(conv.rb.header, 11, 12) = PackH(conv.ex.png.height)

\* the sidecar metadata rebuild reads: the JSON file, or the original
\* container's when the JSON file is gone
SidecarFlagKnown == conv.keep_json \/ conv.original

\* the full chain of the image in the format rebuild writes
FullChainOfImage ==
    calculate_mipmap_chain(conv.ex.png.width, conv.ex.png.height,
                           conv.rb.fmt).mipmaps

\* C19: an explicit override (true or false) always wins; with no override
\* the sidecar's recorded has-mipmaps flag decides; with neither, mipmaps
\* are included.  The payload has the full chain exactly when the decision
\* is "with mipmaps" and the single base level otherwise.
C19_MipmapPriority ==
    conv.pc = "rebuilt" =>
        /\ conv.rb.success
        /\ conv.force = "true" => conv.rb.has_mipmaps
        /\ conv.force = "false" => ~conv.rb.has_mipmaps
        /\ (conv.force = "none" /\ SidecarFlagKnown) =>
              conv.rb.has_mipmaps = conv.ex.meta.has_mipmaps
        /\ (conv.force = "none" /\ ~SidecarFlagKnown) => conv.rb.has_mipmaps
        /\ conv.rb.has_mipmaps => conv.rb.levels = FullChainOfImage
        /\ ~conv.rb.has_mipmaps =>
              /\ Len(conv.rb.levels) = 1
              /\ conv.rb.levels[1].width = conv.ex.png.width
              /\ conv.rb.levels[1].height = conv.ex.png.height
        /\ Len(conv.rb.level0) = conv.rb.levels[1].size
        /\ conv.rb.levels[1].size
             = LevelSize(conv.ex.png.width, conv.ex.png.height, conv.rb.fmt)

\* an override of False beats a sidecar that recorded mipmaps: one level is
\* written where the chain has several
C19_Witness ==
    /\ conv.pc = "rebuilt"
    /\ conv.force = "false"
    /\ conv.keep_json /\ conv.ex.meta.has_mipmaps
    /\ Len(conv.rb.levels) = 1
    /\ Len(FullChainOfImage) > 1


(***************************************************************************)
(* BatchSpec: KTEXConverter.batch_extract on a list of files.  A file is   *)
(* its path and its bytes; the loop takes the files one at a time.         *)
(***************************************************************************)
MaxBatch == 3

\* the files a batch is made of: two sound containers, one with a bad magic
\* tag, one with an unknown format id, one cut short
BatchPool ==
    {SourceFile(TRUE, NO_MIPMAPS, DXT1, 4, 4,
                SingleSize(4, 4, DXT1) + V1HeaderSize - 12),
     SourceFile(TRUE, FULL_MIPMAPS, DXT5, 4, 4,
                calculate_mipmap_chain(4, 4, DXT5).total + V8HeaderSize - 12),
     SourceFile(FALSE, NO_MIPMAPS, DXT1, 4, 4,
                SingleSize(4, 4, DXT1) + V1HeaderSize - 12),
     SourceFile(TRUE, NO_MIPMAPS, MaxFormatByte, 4, 4, 14),
     SubSeq(SourceFile(TRUE, NO_MIPMAPS, DXT1, 4, 4, 0), 1, 8)}

\* ConversionResult(success, input_path, error) as extract returns it
Outcome(path, ex) ==
    [input_path |-> path, success |-> ex.success, error |-> ex.error]

\* mutant: the outcome is put in front of the earlier ones
AppendOutcomeInFront(results, r) == <<r>> \o results

\* results.append(self.extract(f, out))
AppendOutcome(results, r) == Append(results, r)

BatchStart(files) ==
    [pc |-> "loop", files |-> files, next |-> 1, results |-> <<>>]

BatchInit ==
    /\ data = NoFile
    /\ result = NotCalled
    /\ chain = ChainIdle
    /\ prim = PrimIdle
    /\ \E n \in 1..MaxBatch :
          \E contents \in [1..n -> BatchPool] :
             conv = BatchStart([k \in 1..n |->
                                   [path |-> k, bytes |-> contents[k]]])

\* one turn of `for f in files`
BatchExtractOne ==
    /\ conv.pc = "loop"
    /\ conv.next <= Len(conv.files)
    /\ LET f == conv.files[conv.next]
       IN  conv' = [conv EXCEPT
                       !.next = @ + 1,
                       !.results = AppendOutcome(@, Outcome(f.path,
                                                            extract(f.bytes)))]
    /\ UNCHANGED <<data, result, chain, prim>>

\* return results
BatchReturn ==
    /\ conv.pc = "loop"
    /\ conv.next > Len(conv.files)
    /\ conv' = [conv EXCEPT !.pc = "returned"]
    /\ UNCHANGED <<data, result, chain, prim>>

BatchNext == BatchExtractOne \/ BatchReturn

BatchSpec == BatchInit /\ [][BatchNext]_vars

(***************************************************************************)
(* The claim about batch extraction.                                       *)
(***************************************************************************)
BadMagic(bytes) == Len(bytes) < 4 \/ SubSeq(bytes, 1, 4) # KTEX_MAGIC

\* a container the detector accepts, with positive dimensions
ValidContainer(bytes) ==
    /\ ~detect_structure(FileOf(bytes)).raised
    /\ detect_structure(FileOf(bytes)).info.width > 0
    /\ detect_structure(FileOf(bytes)).info.height > 0

Positions == 1..Len(conv.files)

\* file k is the one corrupted file of the batch: bad magic, all the others
\* valid
OnlyCorrupted(k) ==
    /\ BadMagic(conv.files[k].bytes)
    /\ \A j \in Positions \ {k} : ValidContainer(conv.files[j].bytes)

\* C20: batch extraction of N files returns exactly N outcomes, in input
\* order, each with its own input path; a file with bad magic yields
\* success = false and a non-empty error, every valid file yields success =
\* true; with one corrupted file among valid ones there are N-1 successes
\* and exactly one failure, tagged with the corrupted file's path.
C20_BatchIsolatesFailures ==
    conv.pc = "returned" =>
        /\ Len(conv.results) = Len(conv.files)
        /\ \A k \in Positions :
              /\ conv.results[k].input_path = conv.files[k].path
              /\ BadMagic(conv.files[k].bytes) =>
                    /\ ~conv.results[k].success
                    /\ conv.results[k].error # ""
              /\ ValidContainer(conv.files[k].bytes) =>
                    conv.results[k].success
        /\ \A k \in Positions :
              OnlyCorrupted(k) =>
                 /\ Cardinality({j \in Positions : conv.results[j].success})
                      = Len(conv.files) - 1
                 /\ {conv.results[j].input_path :
                       j \in {i \in Positions : ~conv.results[i].success}}
                      = {conv.files[k].path}

\* the corrupted file sits in the middle of three: the files before and
\* after it are extracted
C20_Witness ==
    /\ conv.pc = "returned"
    /\ Len(conv.files) = 3
    /\ OnlyCorrupted(2)
    /\ conv.results[1].success /\ ~conv.results[2].success
    /\ conv.results[3].success

(***************************************************************************)
(* The claim about the levels of the chain, against a reference written    *)
(* from the format's rule rather than from the loop.                       *)
(***************************************************************************)
\* ceil(w / 4)
CeilQuarter(w) == (w + 3) \div 4

\* the dimensions of the reference chain from (w, h) on, w, h >= 1
RECURSIVE ReferenceDims(_, _)
ReferenceDims(w, h) ==
    IF w <= 4 /\ h <= 4 THEN <<<<w, h>>>>
    ELSE <<<<w, h>>>> \o ReferenceDims(Max(1, w \div 2), Max(1, h \div 2))

\* C22: for width, height >= 1 the chain equals the reference sequence:
\* level 0 is (width, height), each next level halves both dimensions
\* (floor, at least 1), the sequence stops right after the first level with
\* both dimensions <= 4; each size is ceil(w/4) * ceil(h/4) * block_size
\* (8 for DXT1, 16 for DXT3 and DXT5), each offset is the sum of the earlier
\* sizes, and the total is the sum of all sizes.
C22_ChainMatchesReference ==
    (ChainValidArgs /\ chain.pc = "done") =>
        LET ref == ReferenceDims(chain.width, chain.height)
            bs == IF chain.fmt = DXT1 THEN 8 ELSE 16
        IN  /\ Len(chain.mipmaps) = Len(ref)
            /\ \A i \in 1..Len(chain.mipmaps) :
                  /\ chain.mipmaps[i].level = i - 1
                  /\ chain.mipmaps[i].width = ref[i][1]
                  /\ chain.mipmaps[i].height = ref[i][2]
                  /\ chain.mipmaps[i].size
                       = CeilQuarter(ref[i][1]) * CeilQuarter(ref[i][2]) * bs
                  /\ chain.mipmaps[i].offset
                       = SumSizes(SubSeq(chain.mipmaps, 1, i - 1))
            /\ chain.total = SumSizes(chain.mipmaps)

\* a wide, flat image: the height is down to 1 long before the width is
\* down to 4, and the chain goes on until both are small
C22_Witness ==
    /\ ChainValidArgs /\ chain.pc = "done"
    /\ chain.width = 261 /\ chain.height = 5 /\ chain.fmt = DXT3
    /\ Len(chain.mipmaps) = 7
    /\ chain.mipmaps[3].height = 1 /\ chain.mipmaps[3].width = 65
    /\ chain.mipmaps[7].offset > 0

(***************************************************************************)
(* The claim about the palettes of the block decoder.                      *)
(***************************************************************************)
\* the two endpoint codes and the index of pixel i (0-based) as stored in
\* the colour part of a block, which starts at byte `from` (1-based)
StoredCode0(block, from) == block[from] + 256 * block[from + 1]
StoredCode1(block, from) == block[from + 2] + 256 * block[from + 3]
StoredIndex(block, from, i) ==
    (block[from + 4 + (i \div 4)] \div (4 ^ (i % 4))) % 4

\* endpoints plus the interpolants at 1/3 and 2/3
FourColorPalette(c0, c1) ==
    LET e0 == rgb565_to_rgb(c0)
        e1 == rgb565_to_rgb(c1)
    IN  <<e0, e1,
          <<(2 * e0[1] + e1[1]) \div 3, (2 * e0[2] + e1[2]) \div 3,
            (2 * e0[3] + e1[3]) \div 3>>,
          <<(e0[1] + 2 * e1[1]) \div 3, (e0[2] + 2 * e1[2]) \div 3,
            (e0[3] + 2 * e1[3]) \div 3>>>>

Midpoint(c0, c1) ==
    LET e0 == rgb565_to_rgb(c0)
        e1 == rgb565_to_rgb(c1)
    IN  <<(e0[1] + e1[1]) \div 2, (e0[2] + e1[2]) \div 2,
          (e0[3] + e1[3]) \div 2>>

RgbOf(pixel) == <<pixel[1], pixel[2], pixel[3]>>

\* C23: a DXT1 block with c0 > c1 decodes every pixel with alpha 255 from
\* the 4-colour palette; a DXT1 block with c0 <= c1 decodes index 3 to
\* (0, 0, 0, 0) and index 2 to the midpoint; DXT3 and DXT5 colour blocks
\* always use the 4-colour palette, whatever the order of c0 and c1.
C23_PaletteByFormatAndOrder ==
    prim.pc = "decode done" =>
        LET from == IF prim.fmt = DXT1 THEN 1 ELSE 9
            c0 == StoredCode0(prim.block, from)
            c1 == StoredCode1(prim.block, from)
        IN  \A i \in 1..16 :
               LET idx == StoredIndex(prim.block, from, i - 1)
                   px == prim.decoded[i]
               IN  /\ (prim.fmt = DXT1 /\ c0 > c1) =>
                         /\ px[4] = 255
                         /\ RgbOf(px) = FourColorPalette(c0, c1)[idx + 1]
                   /\ (prim.fmt = DXT1 /\ c0 <= c1 /\ idx = 3) =>
                         px = <<0, 0, 0, 0>>
                   /\ (prim.fmt = DXT1 /\ c0 <= c1 /\ idx = 2) =>
                         /\ px[4] = 255
                         /\ RgbOf(px) = Midpoint(c0, c1)
                   /\ prim.fmt # DXT1 =>
                         RgbOf(px) = FourColorPalette(c0, c1)[idx + 1]

\* a DXT1 block in 3-colour mode with a transparent pixel and a midpoint
\* pixel, and the same endpoint order in DXT5 giving a colour at index 3
C23_Witness ==
    /\ prim.pc = "decode done"
    /\ prim.fmt = DXT1
    /\ StoredCode0(prim.block, 1) < StoredCode1(prim.block, 1)
    /\ \E i \in 1..16 : /\ StoredIndex(prim.block, 1, i - 1) = 3
                        /\ prim.decoded[i] = <<0, 0, 0, 0>>
    /\ \E i \in 1..16 : /\ StoredIndex(prim.block, 1, i - 1) = 2
                        /\ prim.decoded[i][4] = 255
                        /\ prim.decoded[i][1] > 0

(***************************************************************************)
(* The claims about the block encoder, on the blocks of CodecSpec.         *)
(***************************************************************************)
\* where the colour part starts in the emitted block (1-based)
ColorPartAt == IF prim.fmt = DXT1 THEN 1 ELSE 9

EmittedCode0 == StoredCode0(prim.encoded, ColorPartAt)
EmittedCode1 == StoredCode1(prim.encoded, ColorPartAt)

CodeOf(rgb) == rgb_to_rgb565(rgb[1], rgb[2], rgb[3])

\* C24 as stated: for every block and every format the emitted block stores
\* c0_565 >= c1_565, and entry 0 of the encoder's palette corresponds to the
\* stored first code and entry 1 to the stored second code.
C24_StoredOrderMatchesPalette ==
    prim.pc = "block done" =>
        /\ EmittedCode0 >= EmittedCode1
        /\ CodeOf(prim.color_table[1]) = EmittedCode0
        /\ CodeOf(prim.color_table[2]) = EmittedCode1

\* C25 as stated: every DXT1 block the encoder emits stores c0_565 strictly
\* greater than c1_565, also when both quantized endpoints are equal,
\* including when they equal 65535.
C25_Dxt1StrictOrder ==
    (prim.pc = "block done" /\ prim.fmt = DXT1) =>
        EmittedCode0 > EmittedCode1

\* C27 as stated: decoding the DXT1 encoding of any block of 16 pixels
\* yields 16 pixels that all have alpha 255.
C27_Dxt1AlwaysOpaque ==
    (prim.pc = "block done" /\ prim.fmt = DXT1) =>
        \A i \in 1..16 : prim.decoded[i][4] = 255

\* the colours the decoder rebuilds from the two codes of the emitted block
DecoderPalette ==
    IF prim.fmt = DXT1 /\ EmittedCode0 <= EmittedCode1
    THEN <<rgb565_to_rgb(EmittedCode0), rgb565_to_rgb(EmittedCode1),
           Midpoint(EmittedCode0, EmittedCode1), <<0, 0, 0>>>>
    ELSE FourColorPalette(EmittedCode0, EmittedCode1)

\* the encoder's distance, in thousandths
WeightedDistance(a, b) ==
    299 * (a[1] - b[1]) * (a[1] - b[1]) + 587 * (a[2] - b[2]) * (a[2] - b[2])
    + 114 * (a[3] - b[3]) * (a[3] - b[3])

\* C30 as stated: for every block and format the palette the encoder
\* searches equals, entry for entry, the palette the decoder rebuilds from
\* the two codes of the emitted block, so each emitted index selects the
\* decoder-palette colour nearest to the source pixel.
C30_EncoderPaletteIsDecoderPalette ==
    prim.pc = "block done" =>
        /\ \A k \in 1..4 : prim.color_table[k] = DecoderPalette[k]
        /\ \A i \in 1..16, k \in 1..4 :
              WeightedDistance(
                  RgbOf(prim.pixels[i]),
                  DecoderPalette[StoredIndex(prim.encoded, ColorPartAt,
                                             i - 1) + 1])
                <= WeightedDistance(RgbOf(prim.pixels[i]), DecoderPalette[k])

(***************************************************************************)
(* The claim about the header and the level-0 payload of a detected file.  *)
(***************************************************************************)
\* C28 as stated: for every info the detector returns, by any branch, the
\* raw header has exactly header_size bytes and header_size + the size of
\* level 0 is at most the file length.  Stated here for the headers with
\* positive dimensions, where it already fails.
C28_LevelZeroComplete ==
    (Called /\ PositiveDimensions /\ ~result.raised) =>
        /\ result.info.raw_header = result.info.header_size
        /\ result.info.header_size + result.info.mipmaps[1].size <= data.len

(***************************************************************************)
(* The claim about the format id of a rebuilt container.                   *)
(***************************************************************************)
\* C29 as stated: in every container rebuild writes, the format id in
\* header byte 7 equals the format used to encode the payload, for every
\* combination of header file, metadata JSON and original container.
C29_DeclaredFormatIsEncodedFormat ==
    (conv.pc = "rebuilt" /\ conv.rb.success) =>
        conv.rb.header[8] = conv.rb.fmt

(***************************************************************************)
(* The claim about the layout of the payload rebuild writes.               *)
(***************************************************************************)
\* the chain of the rebuilt image in the format written
ChainOfImage ==
    calculate_mipmap_chain(conv.ex.png.width, conv.ex.png.height, conv.rb.fmt)

\* the length of the file written
WrittenLength == Len(conv.rb.header) + PayloadLength(conv.rb.payload)

\* block b (0-based, row-major) of level 0 as it stands in the payload
StoredBlock(b) ==
    SubSeq(conv.rb.level0, b * block_size(conv.rb.fmt) + 1,
           (b + 1) * block_size(conv.rb.fmt))

\* C26: the payload is the encodings of the chain's levels in ascending
\* level order with no padding: level k starts at its MipLevel.offset and is
\* MipLevel.size long, so the file length is header length + chain total
\* with mipmaps and header length + base-level size without; the blocks of a
\* level are laid out row-major by block index.
C26_PayloadLayout ==
    (conv.pc = "rebuilt" /\ conv.rb.success) =>
        LET bw == CeilQuarter(conv.ex.png.width)
            bh == CeilQuarter(conv.ex.png.height)
        IN  /\ conv.rb.has_mipmaps =>
                  /\ Len(conv.rb.payload) = Len(ChainOfImage.mipmaps)
                  /\ \A k \in 1..Len(conv.rb.payload) :
                        /\ conv.rb.payload[k].level = k - 1
                        /\ conv.rb.payload[k].start
                             = ChainOfImage.mipmaps[k].offset
                        /\ conv.rb.payload[k].len
                             = ChainOfImage.mipmaps[k].size
                  /\ WrittenLength = Len(conv.rb.header) + ChainOfImage.total
            /\ ~conv.rb.has_mipmaps =>
                  /\ Len(conv.rb.payload) = 1
                  /\ WrittenLength
                       = Len(conv.rb.header)
                         + bw * bh * block_size(conv.rb.fmt)
            /\ Len(conv.rb.level0) = conv.rb.payload[1].len
            /\ \A b \in 0..(bw * bh - 1) :
                  StoredBlock(b)
                    = encode_block(BlockPixels(conv.ex.png, b % bw, b \div bw),
                                   conv.rb.fmt)

\* a 5x5 image in DXT1 with mipmaps: four blocks in level 0, the 2x2 level
\* right behind them
C26_Witness ==
    /\ conv.pc = "rebuilt" /\ conv.rb.success
    /\ conv.rb.has_mipmaps /\ conv.rb.fmt = DXT1
    /\ conv.ex.png.width = 5 /\ conv.ex.png.height = 5
    /\ Len(conv.rb.payload) = 2
    /\ conv.rb.payload[2].start = 32 /\ conv.rb.payload[2].len = 8
    /\ WrittenLength = Len(conv.rb.header) + 40

(***************************************************************************)
(* StepSpec: extract and rebuild statement by statement, to see when the   *)
(* output files are written.  `written` holds the files the running        *)
(* operation has written so far.                                           *)
(***************************************************************************)
\* the containers handed to extract: those of the batches, one with zero
\* dimensions whose chain is empty, one compact and one DXT3 container
StepPool ==
    BatchPool
    \cup {SourceFile(TRUE, FULL_MIPMAPS, DXT1, 0, 0, V8HeaderSize - 12),
          SourceFile(TRUE, COMPACT_MIPMAPS, DXT1, 1, 1,
                     calculate_mipmap_chain(1, 1, DXT1).total - 2),
          SourceFile(TRUE, NO_MIPMAPS, DXT3, 4, 4,
                     SingleSize(4, 4, DXT3) + V1HeaderSize - 12)}

\* the containers named as original_ktex of a rebuild: none, the source
\* itself, a file that is no container
Originals(src) == {NoHeader, HeaderBytes(src), HeaderBytes(<<0, 1, 2, 3>>)}

NoOutcome ==
    [returned |-> FALSE, success |-> FALSE, output_path |-> "None",
     error |-> ""]

\* mutant: the failure outcome names the output path
FailureWithPath(msg, output_path) ==
    [returned |-> TRUE, success |-> FALSE, output_path |-> output_path,
     error |-> msg]

\* the except clause: ConversionResult(success=False, input_path, error)
Failure(msg, output_path) ==
    [returned |-> TRUE, success |-> FALSE, output_path |-> "None",
     error |-> msg]

\* ConversionResult(success=True, input_path, output_path)
Success(output_path) ==
    [returned |-> TRUE, success |-> TRUE, output_path |-> output_path,
     error |-> ""]

StepStart(bytes, extract_all_mipmaps) ==
    [pc |-> "detect", op |-> "extract", src |-> bytes, info |-> NoInfo,
     image |-> NoImage, written |-> {}, outcome |-> NoOutcome,
     original |-> NoHeader, force |-> "none", loaded |-> NoMeta,
     loaded_header |-> NoHeader, texture |-> <<>>, header |-> <<>>,
     extract_all_mipmaps |-> extract_all_mipmaps]

StepInit ==
    /\ data = NoFile
    /\ result = NotCalled
    /\ chain = ChainIdle
    /\ prim = PrimIdle
    /\ \E bytes \in StepPool, extract_all_mipmaps \in BOOLEAN :
          conv = StepStart(bytes, extract_all_mipmaps)

\* info = self._detect_structure(data)
ExDetect ==
    /\ conv.pc = "detect"
    /\ LET r == detect_structure(FileOf(conv.src))
       IN  conv' = IF r.raised
                   THEN [conv EXCEPT !.pc = "done",
                                     !.outcome = Failure(r.error, "png")]
                   ELSE [conv EXCEPT !.pc = "decode", !.info = r.info]
    /\ UNCHANGED <<data, result, chain, prim>>

\* mip0 = info.mipmaps[0]; image = DXTDecoder.decode(...)
ExDecode ==
    /\ conv.pc = "decode"
    /\ conv' =
          IF conv.info.mipmaps = <<>>
          THEN [conv EXCEPT
                   !.pc = "done",
                   !.outcome = Failure("list index out of range", "png")]
          ELSE [conv EXCEPT
                   !.pc = "save",
                   !.image =
                       decode(Slice(conv.src, conv.info.header_size,
                                    conv.info.header_size
                                      + conv.info.mipmaps[1].size),
                              conv.info.mipmaps[1].width,
                              conv.info.mipmaps[1].height, conv.info.format)]
    /\ UNCHANGED <<data, result, chain, prim>>

\* image.save(output_path, 'PNG', optimize=True)
ExSavePng ==
    /\ conv.pc = "save"
    /\ conv' = [conv EXCEPT !.pc = "metadata",
                            !.written = @ \cup {"png"}]
    /\ UNCHANGED <<data, result, chain, prim>>

\* self._save_metadata(output_path, info)
ExSaveMetadata ==
    /\ conv.pc = "metadata"
    /\ conv' = [conv EXCEPT
                   !.pc = IF conv.extract_all_mipmaps /\ conv.info.has_mipmaps
                          THEN "mipmaps" ELSE "return",
                   !.written = @ \cup {"ktex_header", "ktex_meta.json"}]
    /\ UNCHANGED <<data, result, chain, prim>>

\* self._extract_mipmaps(data, info, input_path): one PNG per level
ExExtractMipmaps ==
    /\ conv.pc = "mipmaps"
    /\ conv' = [conv EXCEPT !.pc = "return",
                            !.written = @ \cup {"mip png"}]
    /\ UNCHANGED <<data, result, chain, prim>>

\* return ConversionResult(success=True, ...)
ExReturn ==
    /\ conv.pc = "return"
    /\ conv' = [conv EXCEPT !.pc = "done", !.outcome = Success("png")]
    /\ UNCHANGED <<data, result, chain, prim>>

\* rebuild is called on the PNG a successful extract wrote;
\* image = Image.open(input_path).convert('RGBA')
RbOpen ==
    /\ conv.pc = "done"
    /\ conv.op = "extract"
    /\ conv.outcome.success
    /\ \E original \in Originals(conv.src), force \in Overrides :
          conv' = [conv EXCEPT !.pc = "load", !.op = "rebuild",
                               !.written = {}, !.outcome = NoOutcome,
                               !.original = original, !.force = force]
    /\ UNCHANGED <<data, result, chain, prim>>

\* a format_id that DXTFormat does not have
NoSuchFormat == 7

\* the JSON file next to the PNG: as extract wrote it, deleted, or edited
\* to a format_id that DXTFormat does not have
JsonFiles(info) ==
    {to_dict(info), NoMeta, [to_dict(info) EXCEPT !.format_id = NoSuchFormat]}

\* header_data, meta = self._load_metadata(input_path, original_ktex)
RbLoadMetadata ==
    /\ conv.pc = "load"
    /\ \E json_file \in JsonFiles(conv.info) :
          LET loaded == load_metadata(
                            HeaderBytes(Slice(conv.src, 0,
                                              conv.info.header_size)),
                            json_file, conv.original)
          IN  conv' = IF loaded.raised
                      THEN [conv EXCEPT
                               !.pc = "rebuilt",
                               !.outcome = Failure(loaded.error, "tex")]
                      ELSE [conv EXCEPT
                               !.pc = "encode", !.loaded = loaded.meta,
                               !.loaded_header = loaded.header_data]
    /\ UNCHANGED <<data, result, chain, prim>>

\* fmt = DXTFormat(meta.get('format_id', 2)), then texture_data =
\* self._encode_with_mipmaps(...) or self.encoder.encode(...)
RbEncode ==
    /\ conv.pc = "encode"
    /\ LET fmt == IF conv.loaded.present THEN conv.loaded.format_id ELSE DXT5
       IN  conv' = IF fmt \notin {DXT1, DXT3, DXT5}
                   THEN [conv EXCEPT
                            !.pc = "rebuilt",
                            !.outcome = Failure("not a valid DXTFormat",
                                                "tex")]
                   ELSE [conv EXCEPT
                            !.pc = "header",
                            !.texture =
                                texture_pieces(conv.image, fmt,
                                               decide_mipmaps(conv.loaded,
                                                              conv.force))]
    /\ UNCHANGED <<data, result, chain, prim>>

\* the header is updated or created, final_data is put together
RbHeader ==
    /\ conv.pc = "header"
    /\ conv' = [conv EXCEPT
                   !.pc = "write",
                   !.header = rebuild(conv.image, conv.loaded_header,
                                      conv.loaded, NoHeader,
                                      conv.force).header]
    /\ UNCHANGED <<data, result, chain, prim>>

\* with open(output_path, 'wb') as f: f.write(final_data)
RbWrite ==
    /\ conv.pc = "write"
    /\ conv' = [conv EXCEPT !.pc = "rb return", !.written = @ \cup {"tex"}]
    /\ UNCHANGED <<data, result, chain, prim>>

\* return ConversionResult(success=True, ...)
RbReturn ==
    /\ conv.pc = "rb return"
    /\ conv' = [conv EXCEPT !.pc = "rebuilt", !.outcome = Success("tex")]
    /\ UNCHANGED <<data, result, chain, prim>>

StepNext ==
    \/ ExDetect \/ ExDecode \/ ExSavePng \/ ExSaveMetadata
    \/ ExExtractMipmaps \/ ExReturn
    \/ RbOpen \/ RbLoadMetadata \/ RbEncode \/ RbHeader \/ RbWrite
    \/ RbReturn

StepSpec == StepInit /\ [][StepNext]_vars

(***************************************************************************)
(* The claim about the order of the write step.                            *)
(***************************************************************************)
\* the levels rebuild has to encode for the image at hand
LevelsToEncode ==
    IF decide_mipmaps(conv.loaded, conv.force)
    THEN Len(calculate_mipmap_chain(
                 conv.image.width, conv.image.height,
                 IF conv.loaded.present THEN conv.loaded.format_id
                 ELSE DXT5).mipmaps)
    ELSE 1

\* C21: extract writes its image file only after structure detection and
\* level-0 decoding have completed without error, rebuild writes its
\* container file only after every level has been encoded; in every run
\* where detection, decoding or encoding fails, the operation has written
\* no output file and its outcome has success = false and no output path.
C21_WriteComesLast ==
    /\ [][("png" \in conv'.written /\ "png" \notin conv.written) =>
             /\ conv.op = "extract"
             /\ ~detect_structure(FileOf(conv.src)).raised
             /\ conv.info = detect_structure(FileOf(conv.src)).info
             /\ conv.image # NoImage
             /\ conv.image.width = conv.info.mipmaps[1].width
             /\ conv.image.height = conv.info.mipmaps[1].height]_vars
    /\ [][("tex" \in conv'.written /\ "tex" \notin conv.written) =>
             /\ conv.op = "rebuild"
             /\ Len(conv.texture) = LevelsToEncode
             /\ Len(conv.texture) >= 1]_vars
    /\ []((conv.outcome.returned /\ ~conv.outcome.success) =>
             /\ conv.written = {}
             /\ conv.outcome.output_path = "None"
             /\ conv.outcome.error # "")

\* a rebuild that failed on a format_id without a DXTFormat, after a
\* successful extract: nothing written, no output path
C21_Witness ==
    /\ conv.op = "rebuild"
    /\ conv.outcome.returned /\ ~conv.outcome.success
    /\ conv.outcome.error = "not a valid DXTFormat"
    /\ conv.loaded.format_id = NoSuchFormat
    /\ conv.written = {}
    /\ conv.image # NoImage

====
